---------------------------- MODULE Spec2Model ----------------------------
(***************************************************************************)
(* Model of aiogram_broadcaster.base.BaseBroadcaster.                      *)
(*                                                                         *)
(* Python values are written as the text of their literal: "0", "''", "1", *)
(* "None", "True", "False", "'x'".  A dict is a function from the set of   *)
(* its keys to such values.  A broadcaster object is an element of Disp, a *)
(* running coroutine of run() is an element of Tasks.  asyncio runs a      *)
(* coroutine without interruption from one await to the next, so an action *)
(* of the model is the code between two awaits.                            *)
(***************************************************************************)
EXTENDS Integers, Sequences, FiniteSets, TLC

(***************************************************************************)
(* Bounds of the model.                                                    *)
(***************************************************************************)
\* broadcaster objects
NDisp == 2
\* coroutines of run() that may exist at the same time
NTasks == 2
\* longest chats list passed to the constructor
MaxItems == 2
\* longest chats list of a broadcaster that is run
MaxTargets == 3
\* number of run() invocations in one behaviour
MaxRuns == 2

Disp == 1 .. NDisp
Tasks == 1 .. NTasks

(***************************************************************************)
(* Python values and dicts.                                                *)
(***************************************************************************)
\* int and str values: isinstance(v, int) or isinstance(v, str)
Scalars == {"0", "''", "1", "2", "3"}

\* bool(v) of a Python value
Truthy(v) == v \notin {"0", "''", "None", "False"}

\* the keys a dict of the model may have, with their sort order
KeyRank == [chat_id |-> 1, opt |-> 2, tag |-> 3]
Keys == DOMAIN KeyRank

\* the dicts over the given keys that bind each key to one of its values
DictsOver(vals) ==
    UNION {{m \in [ks -> UNION {vals[k] : k \in ks}] :
               \A k \in ks : m[k] \in vals[k]} : ks \in SUBSET DOMAIN vals}

EmptyDict == [k \in {} |-> "None"]

\* {key: value}
Single(key, value) == [k \in {key} |-> value]

\* d.get(key): None when the key is absent
Get(d, key) == IF key \in DOMAIN d THEN d[key] ELSE "None"

\* the dict left behind by d.pop(key)
Popped(d, key) == [k \in DOMAIN d \ {key} |-> d[k]]

\* {**a, **b}: on a key of both, b's value wins
Merge(a, b) == [k \in DOMAIN a \cup DOMAIN b |->
                  IF k \in DOMAIN b THEN b[k] ELSE a[k]]

\* sorted(d.keys())
SortedKeys(d) ==
    CHOOSE s \in [1 .. Cardinality(DOMAIN d) -> DOMAIN d] :
        /\ \A i, j \in DOMAIN s : i < j => KeyRank[s[i]] < KeyRank[s[j]]
        /\ {s[i] : i \in DOMAIN s} = DOMAIN d

SeqsUpTo(S, n) == UNION {[1 .. k -> S] : k \in 0 .. n}

(***************************************************************************)
(* The chats argument of the constructor.  It is a scalar, a list or       *)
(* something else; an item of a list is a scalar, a dict or something else *)
(* (a float, None, a tuple).                                               *)
(***************************************************************************)
ScalarItem(v) == [kind |-> "scalar", val |-> v, map |-> EmptyDict]
DictItem(d) == [kind |-> "dict", val |-> "None", map |-> d]
OtherItem == [kind |-> "other", val |-> "None", map |-> EmptyDict]

ScalarChats(v) == [shape |-> "scalar", val |-> v, items |-> <<>>]
ListChats(its) == [shape |-> "list", val |-> "None", items |-> its]
OtherChats == [shape |-> "other", val |-> "None", items |-> <<>>]

IsScalarItem(it) == it.kind = "scalar"
IsDictItem(it) == it.kind = "dict"
\* HasChatId as the test 'chat_id' in chat
HasChatIdKey(it) == "chat_id" \in DOMAIN it.map

\* chat.get('chat_id') as a condition
HasChatId(it) == Truthy(Get(it.map, "chat_id"))

\* the three all([...]) of _setup_chats
AllScalars(items) == \A i \in DOMAIN items : IsScalarItem(items[i])
AllDicts(items) == \A i \in DOMAIN items : IsDictItem(items[i])
AllHaveChatId(items) == \A i \in DOMAIN items : HasChatId(items[i])

\* _chek_identical_keys comparing the numbers of keys only
chek_same_number_of_keys(dicts) ==
    \A i \in 2 .. Len(dicts) :
        Cardinality(DOMAIN dicts[i].map) = Cardinality(DOMAIN dicts[1].map)

\* BaseBroadcaster._chek_identical_keys
chek_identical_keys(dicts) ==
    \A i \in 2 .. Len(dicts) :
        SortedKeys(dicts[i].map) = SortedKeys(dicts[1].map)

\* ScalarTarget without **args
ScalarTargetBare(v, args) == Single("chat_id", v)

\* one element of the comprehension of the scalar branches
ScalarTarget(v, args) == Merge(Single("chat_id", v), args)

\* DictTarget with **args before **chat
DictTargetRecordWins(chat, args) ==
    Merge(Merge(Single("chat_id", chat["chat_id"]), args),
          Popped(chat, "chat_id"))

\* one element of the comprehension of the dict branch:
\* {'chat_id': chat.pop('chat_id'), **chat, **args}
DictTarget(chat, args) ==
    Merge(Merge(Single("chat_id", chat["chat_id"]), Popped(chat, "chat_id")),
          args)

\* the outcome of a call: the exception raised ("none" if it returns
\* normally), whether self.chats was assigned, its value, and the caller's
\* chats object as the call leaves it
Outcome(exc, set, value, left) ==
    [exc |-> exc, set |-> set, chats |-> value, input |-> left]

\* the comprehension of the dict branch: the records with a truthy chat_id,
\* each turned into a target
DictTargets(items, args) ==
    LET kept == SelectSeq(items, HasChatId)
    IN  [i \in DOMAIN kept |-> DictTarget(kept[i].map, args)]

\* the caller's records after the comprehension: chat.pop('chat_id') has
\* removed the key from every record that was turned into a target
AfterPop(items) ==
    [i \in DOMAIN items |->
        IF HasChatId(items[i])
        THEN DictItem(Popped(items[i].map, "chat_id"))
        ELSE items[i]]

\* BaseBroadcaster._setup_chats
setup_chats(chats, args) ==
    IF chats.shape = "scalar"
    THEN Outcome("none", TRUE, <<ScalarTarget(chats.val, args)>>, chats)
    ELSE IF chats.shape = "list"
    THEN IF AllScalars(chats.items)
         THEN Outcome("none", TRUE,
                      [i \in DOMAIN chats.items |->
                          ScalarTarget(chats.items[i].val, args)],
                      chats)
         ELSE IF AllDicts(chats.items)
         THEN IF ~AllHaveChatId(chats.items)
              THEN Outcome("ValueError", FALSE, <<>>, chats)
              ELSE IF ~chek_identical_keys(chats.items)
              THEN Outcome("ValueError", FALSE, <<>>, chats)
              ELSE Outcome("none", TRUE, DictTargets(chats.items, args),
                           ListChats(AfterPop(chats.items)))
         ELSE Outcome("none", FALSE, <<>>, chats)
    ELSE Outcome("AttributeError", FALSE, <<>>, chats)

\* _setup_bot without lines 76-77
setup_bot_lenient(b, token, current) ==
    LET neither == ~(Truthy(b) \/ Truthy(token))
        used == IF neither THEN current ELSE b
    IN  IF neither /\ ~Truthy(current)
        THEN [exc |-> "AttributeError", bot |-> "None"]
        ELSE IF Truthy(used)
        THEN [exc |-> "none", bot |-> used]
        ELSE IF Truthy(token)
        THEN [exc |-> "none", bot |-> "Bot(token)"]
        ELSE [exc |-> "none", bot |-> "None"]

\* BaseBroadcaster._setup_bot: the exception raised ("none" if it returns)
\* and the value assigned to self.bot ("None" if it was not assigned).
\* current is the value of Bot.get_current().
setup_bot(b, token, current) ==
    LET neither == ~(Truthy(b) \/ Truthy(token))
        used == IF neither THEN current ELSE b
    IN  IF neither /\ ~Truthy(current)
        THEN [exc |-> "AttributeError", bot |-> "None"]
        ELSE IF Truthy(used) /\ Truthy(token)
        THEN [exc |-> "AttributeError", bot |-> IF neither THEN used ELSE "None"]
        ELSE IF Truthy(used)
        THEN [exc |-> "none", bot |-> used]
        ELSE IF Truthy(token)
        THEN [exc |-> "none", bot |-> "Bot(token)"]
        ELSE [exc |-> "none", bot |-> "None"]

\* _parse_args handing on the attributes without the identifier
parse_args_stripped(chat) ==
    [chat_id |-> Get(chat, "chat_id"), chat_args |-> Popped(chat, "chat_id")]

\* BaseBroadcaster._parse_args
parse_args(chat) == [chat_id |-> Get(chat, "chat_id"), chat_args |-> chat]

\* list.remove(x): the list without its first x
Remove(list, x) ==
    LET first == CHOOSE i \in DOMAIN list :
                     list[i] = x /\ \A j \in 1 .. i - 1 : list[j] # x
    IN  [i \in 1 .. Len(list) - 1 |->
            IF i < first THEN list[i] ELSE list[i + 1]]

Count(list, x) == Cardinality({i \in DOMAIN list : list[i] = x})

(***************************************************************************)
(* State.                                                                  *)
(***************************************************************************)
VARIABLES
    \* the caller's arguments of BaseBroadcaster(...): chats (a mutable
    \* object), args, bot, bot_token, and the value of Bot.get_current()
    chatsArg, argsArg, botArg, tokenArg, currentBot,
    \* history per broadcaster: the chats argument as its __init__ found it
    chatsSeen,
    \* per broadcaster: how __init__ ended ("new" before it is called, "ok",
    \* or the name of the exception it raised)
    ctor,
    \* per broadcaster: whether self.chats was assigned, and self.chats
    hasChats, chats,
    \* per broadcaster: self.bot, self._is_running, self._successful,
    \* self._failure
    bot, is_running, successful, failure,
    \* BaseBroadcaster.running, the class-level list
    running,
    \* per coroutine of run(): where it is suspended ("idle" before it
    \* exists, "send" in await self.send, "sleep" in await asyncio.sleep,
    \* "done" after it returned, "raised" after an exception left it), the
    \* broadcaster it runs on, and the index of the chat of the current
    \* iteration
    pc, owner, pos,
    \* history per coroutine: the send calls it made, whether each returned a
    \* truthy value, the number of asyncio.sleep calls it made, and the two
    \* logs as they were when it started
    calls, results, sleeps, base,
    \* history: run() invocations per broadcaster, runs of it that an
    \* exception ended, and run() invocations in all
    invoked, aborted, nruns,
    \* history per broadcaster: the send calls of its runs that returned
    returned,
    \* the outcome of the caller's last read of the property successful,
    \* forgotten at the next step
    lastRead

argVars == <<chatsArg, argsArg, botArg, tokenArg, currentBot>>
objVars == <<ctor, hasChats, chats, bot, is_running, successful, failure>>
taskVars == <<pc, owner, pos>>
histVars == <<chatsSeen, calls, results, sleeps, base, invoked, aborted, nruns,
              returned>>
vars == <<argVars, objVars, running, taskVars, histVars, lastRead>>

NoRead == [disp |-> 0, exc |-> "none", value |-> <<>>]

\* the property without its test of self._is_running
successful_unguarded(d) == [disp |-> d, exc |-> "none", value |-> successful[d]]

\* the property BaseBroadcaster.successful: the exception raised ("none" if
\* it returns) and the list returned
successful_get(d) ==
    IF ~is_running[d]
    THEN [disp |-> d, exc |-> "RunningError", value |-> <<>>]
    ELSE [disp |-> d, exc |-> "none", value |-> successful[d]]

(***************************************************************************)
(* Construction.                                                           *)
(***************************************************************************)
\* BaseBroadcaster.__init__ on the object d.  An exception of _setup_chats
\* or _setup_bot ends it; what was assigned before stays assigned, and the
\* caller's records stay as _setup_chats left them.
Construct(d) ==
    /\ ctor[d] = "new"
    /\ LET c == setup_chats(chatsArg, argsArg)
           b == setup_bot(botArg, tokenArg, currentBot)
       IN  /\ chatsArg' = c.input
           /\ chatsSeen' = [chatsSeen EXCEPT ![d] = chatsArg]
           /\ hasChats' = [hasChats EXCEPT ![d] = c.set]
           /\ chats' = [chats EXCEPT ![d] = c.chats]
           /\ bot' = [bot EXCEPT ![d] = IF c.exc = "none" THEN b.bot ELSE "None"]
           /\ ctor' = [ctor EXCEPT ![d] =
                          IF c.exc # "none" THEN c.exc
                          ELSE IF b.exc # "none" THEN b.exc
                          ELSE "ok"]
    /\ lastRead' = NoRead
    /\ UNCHANGED <<argsArg, botArg, tokenArg, currentBot>>
    /\ UNCHANGED <<is_running, successful, failure, running>>
    /\ UNCHANGED <<taskVars, calls, results, sleeps, base, invoked, aborted, nruns>>
    /\ UNCHANGED returned

\* the fields every object starts with, and the coroutines and the history
\* before anything ran
Blank ==
    /\ is_running = [d \in Disp |-> FALSE]
    /\ successful = [d \in Disp |-> <<>>]
    /\ failure = [d \in Disp |-> <<>>]
    /\ running = <<>>
    /\ pc = [t \in Tasks |-> "idle"]
    /\ owner = [t \in Tasks |-> 0]
    /\ pos = [t \in Tasks |-> 0]
    /\ calls = [t \in Tasks |-> <<>>]
    /\ results = [t \in Tasks |-> <<>>]
    /\ sleeps = [t \in Tasks |-> 0]
    /\ base = [t \in Tasks |-> [successful |-> <<>>, failure |-> <<>>]]
    /\ invoked = [d \in Disp |-> 0]
    /\ aborted = [d \in Disp |-> 0]
    /\ nruns = 0
    /\ returned = [d \in Disp |-> 0]
    /\ lastRead = NoRead

\* the items of a chats list, and the chats arguments, of the model
RecordInputs ==
    DictsOver([chat_id |-> {"0", "''", "1", "2"}, opt |-> {"'x'"}, tag |-> {"'t'"}])
Items == {ScalarItem(v) : v \in Scalars} \cup {DictItem(m) : m \in RecordInputs}
             \cup {OtherItem}
ChatsInputs == {ScalarChats(v) : v \in Scalars}
                   \cup {ListChats(its) : its \in SeqsUpTo(Items, MaxItems)}
                   \cup {OtherChats}

\* the args arguments of the model (args is a dict: with the default, None,
\* every branch that reaches **args raises TypeError)
ArgsInputs == DictsOver([chat_id |-> {"3"}, opt |-> {"'y'"}])

\* the (bot, bot_token, Bot.get_current()) triples of the model
BotInputs == {"None", "bot"} \X {"None", "''", "'tok'"} \X {"None", "current"}

\* before any object is constructed: any chats and args with a bot passed,
\* or any bot arguments with a chats argument of one item
InitBuild ==
    /\ chatsArg \in ChatsInputs
    /\ argsArg \in ArgsInputs
    /\ \E b \in BotInputs :
           /\ (b = <<"bot", "None", "None">>
                  \/ (chatsArg.shape = "list" /\ Len(chatsArg.items) = 1))
           /\ botArg = b[1]
           /\ tokenArg = b[2]
           /\ currentBot = b[3]
    /\ chatsSeen = [d \in Disp |-> OtherChats]
    /\ ctor = [d \in Disp |-> "new"]
    /\ hasChats = [d \in Disp |-> FALSE]
    /\ chats = [d \in Disp |-> <<>>]
    /\ bot = [d \in Disp |-> "None"]
    /\ Blank

NextBuild == \E d \in Disp : Construct(d)

SpecBuild == InitBuild /\ [][NextBuild]_vars

(***************************************************************************)
(* run().                                                                  *)
(***************************************************************************)
\* what self.send may return
SendResults == {"True", "False", "None"}

\* a coroutine slot that holds no coroutine in progress
Free(t) == pc[t] \in {"idle", "done", "raised"}
InProgress(t) == pc[t] \in {"send", "sleep"}

\* the call self.send(chat_id=chat_id, chat_args=chat_args) for the chat at
\* index i of self.chats, after _parse_args
SendCall(d, i) == parse_args(chats[d][i])

\* Finished without line 144
FinishedStillListed(d, registry) ==
    /\ is_running' = [is_running EXCEPT ![d] = FALSE]
    /\ running' = registry

\* Finished with the registry popped instead of searched for self
FinishedPopLast(d, registry) ==
    /\ is_running' = [is_running EXCEPT ![d] = FALSE]
    /\ running' = SubSeq(registry, 1, Len(registry) - 1)

\* lines 143-144: the end of run()
Finished(d, registry) ==
    /\ is_running' = [is_running EXCEPT ![d] = FALSE]
    /\ running' = Remove(registry, d)

\* Logged with the test of line 138 negated
LoggedInverted(d, chat, r) ==
    IF ~Truthy(r)
    THEN [successful |-> Append(successful[d], Get(chat, "chat_id")),
          failure |-> failure[d]]
    ELSE [successful |-> successful[d],
          failure |-> Append(failure[d], chat)]

\* Logged with the lists assigned instead of appended to
LoggedFresh(d, chat, r) ==
    IF Truthy(r)
    THEN [successful |-> <<Get(chat, "chat_id")>>, failure |-> failure[d]]
    ELSE [successful |-> successful[d], failure |-> <<chat>>]

\* Logged with the append of line 141 outside the else
LoggedTwice(d, chat, r) ==
    IF Truthy(r)
    THEN [successful |-> Append(successful[d], Get(chat, "chat_id")),
          failure |-> Append(failure[d], chat)]
    ELSE [successful |-> successful[d],
          failure |-> Append(failure[d], chat)]

\* lines 138-141: the two logs after self.send returned r for the chat
Logged(d, chat, r) ==
    IF Truthy(r)
    THEN [successful |-> Append(successful[d], parse_args(chat).chat_id),
          failure |-> failure[d]]
    ELSE [successful |-> successful[d],
          failure |-> Append(failure[d], chat)]

\* run() is invoked on d and runs up to its first await: the await of the
\* first send, or, with no chats, to its end.  Without self.chats the for
\* statement raises AttributeError.
RunStart(t, d) ==
    /\ ctor[d] = "ok"
    /\ Free(t)
    /\ \A u \in Tasks : u < t => ~Free(u)
    /\ nruns < MaxRuns
    /\ nruns' = nruns + 1
    /\ invoked' = [invoked EXCEPT ![d] = @ + 1]
    /\ owner' = [owner EXCEPT ![t] = d]
    /\ base' = [base EXCEPT ![t] =
                   [successful |-> successful[d], failure |-> failure[d]]]
    /\ results' = [results EXCEPT ![t] = <<>>]
    /\ sleeps' = [sleeps EXCEPT ![t] = 0]
    /\ IF ~hasChats[d]
       THEN /\ is_running' = [is_running EXCEPT ![d] = TRUE]
            /\ running' = Append(running, d)
            /\ pc' = [pc EXCEPT ![t] = "raised"]
            /\ pos' = [pos EXCEPT ![t] = 0]
            /\ calls' = [calls EXCEPT ![t] = <<>>]
            /\ aborted' = [aborted EXCEPT ![d] = @ + 1]
       ELSE IF chats[d] = <<>>
       THEN /\ Finished(d, Append(running, d))
            /\ pc' = [pc EXCEPT ![t] = "done"]
            /\ pos' = [pos EXCEPT ![t] = 0]
            /\ calls' = [calls EXCEPT ![t] = <<>>]
            /\ UNCHANGED aborted
       ELSE /\ is_running' = [is_running EXCEPT ![d] = TRUE]
            /\ running' = Append(running, d)
            /\ pc' = [pc EXCEPT ![t] = "send"]
            /\ pos' = [pos EXCEPT ![t] = 1]
            /\ calls' = [calls EXCEPT ![t] = <<SendCall(d, 1)>>]
            /\ UNCHANGED aborted
    /\ lastRead' = NoRead
    /\ UNCHANGED <<argVars, ctor, hasChats, chats, bot, successful, failure>>
    /\ UNCHANGED <<chatsSeen, returned>>

\* Throttled with the sleep inside the branch of a truthy result
ThrottledOnSuccess(n, r) == IF Truthy(r) THEN n + 1 ELSE n

\* line 142: the number of asyncio.sleep calls of a coroutine after an
\* iteration whose send returned r, when it had made n before
Throttled(n, r) == n + 1

\* self.send returns r: the result is logged and the coroutine goes on to
\* await asyncio.sleep(self.timeout)
SendReturn(t, r) ==
    /\ pc[t] = "send"
    /\ LET d == owner[t]
           logs == Logged(d, chats[d][pos[t]], r)
       IN  /\ successful' = [successful EXCEPT ![d] = logs.successful]
           /\ failure' = [failure EXCEPT ![d] = logs.failure]
    /\ results' = [results EXCEPT ![t] = Append(@, Truthy(r))]
    /\ returned' = [returned EXCEPT ![owner[t]] = @ + 1]
    /\ sleeps' = [sleeps EXCEPT ![t] = Throttled(@, r)]
    /\ pc' = [pc EXCEPT ![t] = "sleep"]
    /\ lastRead' = NoRead
    /\ UNCHANGED <<argVars, ctor, hasChats, chats, bot, is_running, running>>
    /\ UNCHANGED <<chatsSeen, owner, pos, calls, base, invoked, aborted, nruns>>

\* SendRaise as if lines 143-144 were in a finally clause
SendRaiseCleanedUp(t) ==
    /\ pc[t] = "send"
    /\ pc' = [pc EXCEPT ![t] = "raised"]
    /\ aborted' = [aborted EXCEPT ![owner[t]] = @ + 1]
    /\ is_running' = [is_running EXCEPT ![owner[t]] = FALSE]
    /\ running' = Remove(running, owner[t])
    /\ lastRead' = NoRead
    /\ UNCHANGED <<argVars, ctor, hasChats, chats, bot, successful, failure>>
    /\ UNCHANGED <<owner, pos>>
    /\ UNCHANGED <<chatsSeen, calls, results, sleeps, base, invoked, nruns>>
    /\ UNCHANGED returned

\* self.send raises: nothing in run() catches it, the coroutine ends
SendRaise(t) ==
    /\ pc[t] = "send"
    /\ pc' = [pc EXCEPT ![t] = "raised"]
    /\ aborted' = [aborted EXCEPT ![owner[t]] = @ + 1]
    /\ lastRead' = NoRead
    /\ UNCHANGED <<argVars, objVars, running, owner, pos>>
    /\ UNCHANGED <<chatsSeen, calls, results, sleeps, base, invoked, nruns>>
    /\ UNCHANGED returned

\* asyncio.sleep returns and the for statement has a next chat: its send
\* is called
NextChat(t) ==
    /\ pc[t] = "sleep"
    /\ pos[t] < Len(chats[owner[t]])
    /\ pos' = [pos EXCEPT ![t] = @ + 1]
    /\ calls' = [calls EXCEPT ![t] = Append(@, SendCall(owner[t], pos[t] + 1))]
    /\ pc' = [pc EXCEPT ![t] = "send"]
    /\ lastRead' = NoRead
    /\ UNCHANGED <<argVars, objVars, running, owner>>
    /\ UNCHANGED <<chatsSeen, results, sleeps, base, invoked, aborted, nruns>>
    /\ UNCHANGED returned

\* Finish with the end of the list tested one chat too late
FinishOffByOne(t) ==
    /\ pc[t] = "sleep"
    /\ pos[t] > Len(chats[owner[t]])
    /\ Finished(owner[t], running)
    /\ pc' = [pc EXCEPT ![t] = "done"]
    /\ lastRead' = NoRead
    /\ UNCHANGED <<argVars, ctor, hasChats, chats, bot, successful, failure>>
    /\ UNCHANGED <<owner, pos, histVars>>

\* asyncio.sleep returns and the for statement is exhausted
Finish(t) ==
    /\ pc[t] = "sleep"
    /\ pos[t] >= Len(chats[owner[t]])
    /\ Finished(owner[t], running)
    /\ pc' = [pc EXCEPT ![t] = "done"]
    /\ lastRead' = NoRead
    /\ UNCHANGED <<argVars, ctor, hasChats, chats, bot, successful, failure>>
    /\ UNCHANGED <<owner, pos, histVars>>

\* the caller reads d.successful
ReadSuccessful(d) ==
    /\ ctor[d] = "ok"
    /\ lastRead' = successful_get(d)
    /\ UNCHANGED <<argVars, objVars, running, taskVars, histVars>>

(***************************************************************************)
(* Spec: one object has been constructed from a list of identifiers; the   *)
(* caller awaits every run() before it invokes the next, and reads         *)
(* successful at any time.                                                 *)
(***************************************************************************)
\* identifiers are opaque to run(), so the chats lists are taken up to
\* renaming: the first identifier is 1, and each later one is an earlier one
\* or the next unused of 1, 2, 3
RunIds == <<"1", "2", "3">>
Largest(s, n) == IF n = 0 THEN 0
                 ELSE CHOOSE m \in {s[i] : i \in 1 .. n} :
                          \A i \in 1 .. n : s[i] <= m
RunInputs ==
    {ListChats([i \in DOMAIN s |-> ScalarItem(RunIds[s[i]])]) :
        s \in {q \in SeqsUpTo(DOMAIN RunIds, MaxTargets) :
                  \A i \in DOMAIN q : q[i] <= Largest(q, i - 1) + 1}}

\* the object constructed first
First == CHOOSE d \in Disp : \A e \in Disp : d <= e

Init ==
    /\ \E c \in RunInputs :
           LET built == setup_chats(c, [opt |-> "'y'"])
           IN  /\ chatsArg = built.input
               /\ chatsSeen = [d \in Disp |-> IF d = First THEN c ELSE OtherChats]
               /\ hasChats = [d \in Disp |-> d = First /\ built.set]
               /\ chats = [d \in Disp |-> IF d = First THEN built.chats ELSE <<>>]
    /\ argsArg = [opt |-> "'y'"]
    /\ botArg = "bot"
    /\ tokenArg = "None"
    /\ currentBot = "None"
    /\ bot = [d \in Disp |-> IF d = First
                             THEN setup_bot("bot", "None", "None").bot
                             ELSE "None"]
    /\ ctor = [d \in Disp |-> IF d = First THEN "ok" ELSE "new"]
    /\ Blank

Quiet == \A t \in Tasks : ~InProgress(t)

\* the caller invokes d.run() when no run() is in progress
AwaitedRun(t, d) == Quiet /\ RunStart(t, d)

Next ==
    \/ \E t \in Tasks, d \in Disp : AwaitedRun(t, d)
    \/ \E t \in Tasks, r \in SendResults : SendReturn(t, r)
    \/ \E t \in Tasks : SendRaise(t)
    \/ \E t \in Tasks : NextChat(t)
    \/ \E t \in Tasks : Finish(t)
    \/ \E d \in Disp : ReadSuccessful(d)

Spec == Init /\ [][Next]_vars

(***************************************************************************)
(* Properties of run() and of the property successful, checked under Spec. *)
(***************************************************************************)
\* the run state of the specification: Idle until run() is first invoked,
\* Running while the flag is set, Finished otherwise
RunState(d) == IF is_running[d] THEN "Running"
               ELSE IF invoked[d] = 0 THEN "Idle"
               ELSE "Finished"

\* the chats of d whose send, by the results res, returned a truthy value
\* (want = TRUE) or a falsy one (want = FALSE), in the order of the chats
Chosen(d, res, want) ==
    LET idx == SelectSeq([i \in 1 .. Len(res) |-> i],
                         LAMBDA i : res[i] = want)
    IN  [k \in DOMAIN idx |-> chats[d][idx[k]]]

IdsOf(targets) == [k \in DOMAIN targets |-> targets[k]["chat_id"]]

\* C1: when the only run() of a broadcaster has completed, every chat got a
\* result (a falsy one did not stop the loop), successful holds the
\* identifiers of the chats whose send returned a truthy value, in the order
\* of the chats, and failure holds the chats whose send returned a falsy
\* value, whole and in the order of the chats.
C1_OutcomesOfARun ==
    \A t \in Tasks :
        pc[t] = "done" /\ invoked[owner[t]] = 1 =>
            /\ Len(results[t]) = Len(chats[owner[t]])
            /\ successful[owner[t]] = IdsOf(Chosen(owner[t], results[t], TRUE))
            /\ failure[owner[t]] = Chosen(owner[t], results[t], FALSE)

\* a completed first run over three chats with the results truthy, falsy,
\* truthy
C1_Witness ==
    \E t \in Tasks :
        /\ pc[t] = "done"
        /\ invoked[owner[t]] = 1
        /\ results[t] = <<TRUE, FALSE, TRUE>>
        /\ Len(failure[owner[t]]) = 1

\* a step that is a read of d.successful
IsRead(d) == lastRead' # lastRead /\ lastRead'.disp = d

\* C2: a read of successful on a broadcaster whose run() was never invoked
\* raises RunningError and changes neither its flag, nor its logs, nor the
\* registry.
C2_IdleReadRaises ==
    [][\A d \in Disp :
          IsRead(d) /\ RunState(d) = "Idle" =>
              /\ lastRead'.exc = "RunningError"
              /\ UNCHANGED <<is_running, successful, failure, running, invoked>>]_vars

\* successful was just read on a constructed broadcaster that never ran
C2_Witness ==
    /\ lastRead.disp \in Disp
    /\ ctor[lastRead.disp] = "ok"
    /\ invoked[lastRead.disp] = 0
    /\ lastRead.exc = "RunningError"

\* C3: a read of successful on a broadcaster whose run() has been invoked,
\* be it in progress or completed, returns the list of successes.
C3_ReadAfterIdle ==
    lastRead.disp \in Disp /\ RunState(lastRead.disp) # "Idle" =>
        /\ lastRead.exc = "none"
        /\ lastRead.value = successful[lastRead.disp]

\* the send calls a run makes for the first n chats of d: one per chat, in
\* order, with the chat's identifier and the whole chat
CallsFor(d, n) ==
    [i \in 1 .. n |-> [chat_id |-> chats[d][i]["chat_id"],
                       chat_args |-> chats[d][i]]]

\* C4: a run() has called send once for each chat it has reached, in the
\* order of self.chats, with the chat's identifier and the whole chat; when
\* it completes it has reached every chat, equal identifiers included.
C4_OneCallPerChat ==
    \A t \in Tasks :
        /\ InProgress(t) => calls[t] = CallsFor(owner[t], pos[t])
        /\ pc[t] = "done" => calls[t] = CallsFor(owner[t], Len(chats[owner[t]]))

\* a completed run over three chats of which the first and the last have
\* the same identifier
C4_Witness ==
    \E t \in Tasks :
        /\ pc[t] = "done"
        /\ Len(calls[t]) = 3
        /\ calls[t][1].chat_id = calls[t][3].chat_id
        /\ calls[t][1].chat_id # calls[t][2].chat_id

\* C5: in a run(), while a send is awaited there has been one sleep for
\* each earlier send; once it returned, whatever the result, there has been
\* one for each send; a completed run over N chats has slept N times.
C5_SleepAfterEverySend ==
    \A t \in Tasks :
        /\ pc[t] = "send" => sleeps[t] = Len(calls[t]) - 1
        /\ pc[t] = "sleep" => sleeps[t] = Len(calls[t])
        /\ pc[t] = "done" => sleeps[t] = Len(chats[owner[t]])

\* a completed run over three chats whose last send returned a falsy value
C5_Witness ==
    \E t \in Tasks :
        /\ pc[t] = "done"
        /\ Len(results[t]) = 3
        /\ ~results[t][3]
        /\ sleeps[t] = 3

\* C6: when a run() that was not the first on its broadcaster has
\* completed, each log is the log as that run found it followed by that
\* run's outcomes; and no step ever removes or reorders entries of a log.
C6_LogsAccumulate ==
    /\ [](\A t \in Tasks :
            pc[t] = "done" /\ invoked[owner[t]] > 1 =>
                /\ successful[owner[t]] =
                       base[t].successful
                           \o IdsOf(Chosen(owner[t], results[t], TRUE))
                /\ failure[owner[t]] =
                       base[t].failure \o Chosen(owner[t], results[t], FALSE))
    /\ [][\A d \in Disp :
            /\ Len(successful'[d]) >= Len(successful[d])
            /\ SubSeq(successful'[d], 1, Len(successful[d])) = successful[d]
            /\ Len(failure'[d]) >= Len(failure[d])
            /\ SubSeq(failure'[d], 1, Len(failure[d])) = failure[d]]_vars

\* a second run has completed on a broadcaster whose first run left entries
\* in both logs, and has added entries to both
C6_Witness ==
    \E t \in Tasks :
        /\ pc[t] = "done"
        /\ invoked[owner[t]] = 2
        /\ aborted[owner[t]] = 0
        /\ base[t].successful # <<>>
        /\ base[t].failure # <<>>
        /\ Len(successful[owner[t]]) > Len(base[t].successful)
        /\ Len(failure[owner[t]]) > Len(base[t].failure)

\* C7: a broadcaster whose run() was never invoked is not running and not
\* in the registry; while a run() of it is in its loop (from the first send
\* call on) it is running and in the registry; when its run() has completed
\* it is not running and the registry has lost the entry of that run, so
\* that the broadcaster is absent from it unless an exception ended an
\* earlier run; this holds for the first run and for every later one.
C7_RunningAndRegistered ==
    /\ \A d \in Disp :
           invoked[d] = 0 => ~is_running[d] /\ Count(running, d) = 0
    /\ \A t \in Tasks :
           /\ InProgress(t) =>
                  /\ is_running[owner[t]]
                  /\ Count(running, owner[t]) = aborted[owner[t]] + 1
           /\ pc[t] = "done" =>
                  /\ ~is_running[owner[t]]
                  /\ Count(running, owner[t]) = aborted[owner[t]]

\* a broadcaster has completed a second run, no run of it was ended by an
\* exception, and the registry is empty
C7_Witness ==
    \E t \in Tasks :
        /\ pc[t] = "done"
        /\ invoked[owner[t]] = 2
        /\ aborted[owner[t]] = 0
        /\ Len(calls[t]) > 0
        /\ running = <<>>

\* C8: after send raised in a run(), that run has called send for no chat
\* after the one that raised and has logged nothing for it, the exception has
\* left run(), and the broadcaster is still running and in the registry.
C8_RaiseLeavesRunning ==
    \A t \in Tasks :
        pc[t] = "raised" /\ pos[t] > 0 =>
            /\ Len(calls[t]) = pos[t]
            /\ Len(results[t]) = pos[t] - 1
            /\ is_running[owner[t]]
            /\ Count(running, owner[t]) >= 1
            /\ Len(successful[owner[t]]) + Len(failure[owner[t]])
                   = Len(base[t].successful) + Len(base[t].failure) + pos[t] - 1

\* send raised for the second of three chats
C8_Witness ==
    \E t \in Tasks :
        /\ pc[t] = "raised"
        /\ pos[t] = 2
        /\ Len(chats[owner[t]]) = 3
        /\ is_running[owner[t]]

(***************************************************************************)
(* Properties of the constructor, checked under SpecBuild.                 *)
(***************************************************************************)
\* the identifiers of a chats argument that is a scalar or a list of
\* scalars
ScalarIds(c) == IF c.shape = "scalar" THEN <<c.val>>
                ELSE [i \in DOMAIN c.items |-> c.items[i].val]

IsScalars(c) ==
    \/ c.shape = "scalar"
    \/ c.shape = "list" /\ \A i \in DOMAIN c.items : c.items[i].kind = "scalar"

\* C9 as claimed: from a scalar or a list of N scalars the constructor
\* builds N targets in the order given, the i-th with the i-th identifier
\* and, besides it, exactly the shared defaults.
C9_AsClaimed ==
    \A d \in Disp :
        ctor[d] # "new" /\ IsScalars(chatsSeen[d]) =>
            /\ hasChats[d]
            /\ Len(chats[d]) = Len(ScalarIds(chatsSeen[d]))
            /\ \A i \in DOMAIN chats[d] :
                   /\ DOMAIN chats[d][i] = {"chat_id"} \cup DOMAIN argsArg
                   /\ chats[d][i]["chat_id"] = ScalarIds(chatsSeen[d])[i]
                   /\ \A k \in DOMAIN argsArg \ {"chat_id"} :
                          chats[d][i][k] = argsArg[k]

\* C9: from a scalar or a list of N scalars the constructor builds N
\* targets in the order given, each with exactly the keys chat_id and those
\* of the shared defaults, every key of the defaults bound as in the
\* defaults; chat_id is bound to the i-th identifier unless the defaults
\* have a key chat_id, whose value then takes its place.
C9_ScalarTargets ==
    \A d \in Disp :
        ctor[d] # "new" /\ IsScalars(chatsSeen[d]) =>
            /\ hasChats[d]
            /\ Len(chats[d]) = Len(ScalarIds(chatsSeen[d]))
            /\ \A i \in DOMAIN chats[d] :
                   /\ DOMAIN chats[d][i] = {"chat_id"} \cup DOMAIN argsArg
                   /\ "chat_id" \notin DOMAIN argsArg =>
                          chats[d][i]["chat_id"] = ScalarIds(chatsSeen[d])[i]
                   /\ \A k \in DOMAIN argsArg : chats[d][i][k] = argsArg[k]

\* a broadcaster was constructed from a list of two different scalars and
\* defaults that bind opt only
C9_Witness ==
    \E d \in Disp :
        /\ ctor[d] = "ok"
        /\ chatsSeen[d].shape = "list"
        /\ Len(chatsSeen[d].items) = 2
        /\ IsScalars(chatsSeen[d])
        /\ chatsSeen[d].items[1].val # chatsSeen[d].items[2].val
        /\ argsArg = [opt |-> "'y'"]
        /\ Len(chats[d]) = 2

\* a chats argument that is a list of records, at least one
IsRecords(c) ==
    /\ c.shape = "list"
    /\ c.items # <<>>
    /\ \A i \in DOMAIN c.items : c.items[i].kind = "dict"

\* a record without the key chat_id, or with 0 or '' bound to it
LacksId(m) == "chat_id" \notin DOMAIN m \/ m["chat_id"] \in {"0", "''"}

\* C10: from a list of records of which one has no chat_id, or 0 or '' as
\* its chat_id, the constructor raises ValueError and assigns no self.chats.
C10_MissingIdRejected ==
    \A d \in Disp :
        /\ ctor[d] # "new"
        /\ IsRecords(chatsSeen[d])
        /\ \E i \in DOMAIN chatsSeen[d].items : LacksId(chatsSeen[d].items[i].map)
        => ctor[d] = "ValueError" /\ ~hasChats[d]

\* the constructor raised ValueError for two records with the same keys,
\* the first with a truthy chat_id and the second with 0
C10_Witness ==
    \E d \in Disp :
        /\ ctor[d] = "ValueError"
        /\ IsRecords(chatsSeen[d])
        /\ Len(chatsSeen[d].items) = 2
        /\ ~LacksId(chatsSeen[d].items[1].map)
        /\ chatsSeen[d].items[2].map = [chat_id |-> "0"]

\* the names of the fields of a record other than the identifier
FieldNames(m) == DOMAIN m \ {"chat_id"}

\* a bot instance was passed and no token
OnlyBotPassed == botArg = "bot" /\ tokenArg = "None"

\* C11: from a list of records that all have a truthy chat_id, the
\* constructor raises ValueError exactly when the field names of some
\* record differ from those of the first; when they are the same in all, it
\* builds one target per record and, given a bot, completes.
C11_FieldNamesMustAgree ==
    \A d \in Disp :
        /\ ctor[d] # "new"
        /\ IsRecords(chatsSeen[d])
        /\ \A i \in DOMAIN chatsSeen[d].items : ~LacksId(chatsSeen[d].items[i].map)
        => LET recs == chatsSeen[d].items
               differ == \E i \in DOMAIN recs :
                             FieldNames(recs[i].map) # FieldNames(recs[1].map)
           IN  /\ ctor[d] = "ValueError" <=> differ
               /\ differ => ~hasChats[d]
               /\ ~differ => hasChats[d] /\ Len(chats[d]) = Len(recs)
               /\ ~differ /\ OnlyBotPassed => ctor[d] = "ok"

\* the constructor raised ValueError for two records with a truthy chat_id
\* each, one with the field opt only and the other with the field tag only
C11_Witness ==
    \E d \in Disp :
        /\ ctor[d] = "ValueError"
        /\ IsRecords(chatsSeen[d])
        /\ Len(chatsSeen[d].items) = 2
        /\ \A i \in DOMAIN chatsSeen[d].items : ~LacksId(chatsSeen[d].items[i].map)
        /\ FieldNames(chatsSeen[d].items[1].map) = {"opt"}
        /\ FieldNames(chatsSeen[d].items[2].map) = {"tag"}

\* C12: every target built from a list of records has the keys of its
\* record and those of the shared defaults; a key of the defaults is bound
\* as in the defaults, any other key as in the record.
C12_DefaultsWin ==
    \A d \in Disp :
        ctor[d] # "new" /\ IsRecords(chatsSeen[d]) /\ hasChats[d] =>
            /\ Len(chats[d]) = Len(chatsSeen[d].items)
            /\ \A i \in DOMAIN chats[d] :
                   LET rec == chatsSeen[d].items[i].map
                   IN  /\ DOMAIN chats[d][i] = DOMAIN rec \cup DOMAIN argsArg
                       /\ \A k \in DOMAIN argsArg : chats[d][i][k] = argsArg[k]
                       /\ \A k \in DOMAIN rec \ DOMAIN argsArg :
                              chats[d][i][k] = rec[k]

\* the record {chat_id: 1, opt: 'x'} with the defaults {opt: 'y'} has
\* become the target {chat_id: 1, opt: 'y'}
C12_Witness ==
    \E d \in Disp :
        /\ ctor[d] = "ok"
        /\ chatsSeen[d] = ListChats(<<DictItem([chat_id |-> "1", opt |-> "'x'"])>>)
        /\ argsArg = [opt |-> "'y'"]
        /\ chats[d] = <<[chat_id |-> "1", opt |-> "'y'"]>>

\* a chats argument that is neither a scalar, nor a list of scalars, nor a
\* list of records
Unsupported(c) ==
    \/ c.shape = "other"
    \/ /\ c.shape = "list"
       /\ \E i \in DOMAIN c.items : c.items[i].kind # "scalar"
       /\ \E i \in DOMAIN c.items : c.items[i].kind # "dict"

\* C13: for a chats argument of an unsupported shape, a list that mixes
\* scalars and records included, the constructor raises; it never completes
\* with self.chats unassigned.
C13_UnsupportedRejected ==
    \A d \in Disp :
        ctor[d] # "new" /\ Unsupported(chatsSeen[d]) =>
            /\ ctor[d] \in {"ValueError", "AttributeError"}
            /\ ~(ctor[d] = "ok" /\ ~hasChats[d])

\* C14: once _setup_chats has built the targets: with a bot and a token
\* (a non-empty string) the constructor raises AttributeError; with
\* neither (no token being None or '') it raises AttributeError if
\* Bot.get_current() is None and uses the current bot otherwise; with a bot
\* only it uses that bot, with a token only a bot made from the token.
C14_BotSelection ==
    \A d \in Disp :
        ctor[d] # "new" /\ hasChats[d] =>
            LET withBot == botArg = "bot"
                withToken == tokenArg = "'tok'"
                ambient == currentBot = "current"
            IN  /\ withBot /\ withToken =>
                       ctor[d] = "AttributeError" /\ bot[d] = "None"
                /\ ~withBot /\ ~withToken /\ ~ambient =>
                       ctor[d] = "AttributeError" /\ bot[d] = "None"
                /\ ~withBot /\ ~withToken /\ ambient =>
                       ctor[d] = "ok" /\ bot[d] = "current"
                /\ withBot /\ ~withToken => ctor[d] = "ok" /\ bot[d] = "bot"
                /\ ~withBot /\ withToken =>
                       ctor[d] = "ok" /\ bot[d] = "Bot(token)"

\* the constructor raised for a bot and a token passed together, with a
\* current bot set
C14_Witness ==
    \E d \in Disp :
        /\ ctor[d] = "AttributeError"
        /\ hasChats[d]
        /\ botArg = "bot"
        /\ tokenArg = "'tok'"
        /\ currentBot = "current"

\* C18: constructing from a list of records leaves the caller's records as
\* they were, and any other object constructed from the same list ends the
\* same way with the same targets.
C18_RecordsUntouched ==
    \A d \in Disp :
        ctor[d] # "new" /\ IsRecords(chatsSeen[d]) =>
            /\ chatsArg = chatsSeen[d]
            /\ \A e \in Disp :
                   ctor[e] # "new" =>
                       /\ ctor[e] = ctor[d]
                       /\ hasChats[e] = hasChats[d]
                       /\ chats[e] = chats[d]

(***************************************************************************)
(* Further properties of run(), checked under Spec.                        *)
(***************************************************************************)
\* C16: when send has raised for a chat, that chat, whole, is the last
\* entry of failure.
C16_RaiseIsLogged ==
    \A t \in Tasks :
        pc[t] = "raised" /\ pos[t] > 0 =>
            /\ failure[owner[t]] # <<>>
            /\ failure[owner[t]][Len(failure[owner[t]])]
                   = chats[owner[t]][pos[t]]
            /\ Len(failure[owner[t]]) > Len(base[t].failure)

\* the number of entries of the two logs of d
Logged2(d) == Len(successful[d]) + Len(failure[d])

\* C19: the two logs of a broadcaster have together as many entries as
\* send calls of its runs have returned; a send that returns adds one entry
\* to one of the logs and none to the other; and when no run of the
\* broadcaster is in progress and none was ended by an exception, they have
\* together the number of its runs times the number of its chats.
C19_OneEntryPerReturnedSend ==
    /\ [](\A d \in Disp :
            /\ Logged2(d) = returned[d]
            /\ (aborted[d] = 0 /\ \A t \in Tasks : InProgress(t) => owner[t] # d)
                   => Logged2(d) = invoked[d] * Len(chats[d]))
    /\ [][\A d \in Disp :
            returned'[d] # returned[d] =>
                \/ /\ Len(successful'[d]) = Len(successful[d]) + 1
                   /\ failure'[d] = failure[d]
                \/ /\ Len(failure'[d]) = Len(failure[d]) + 1
                   /\ successful'[d] = successful[d]]_vars

\* two runs over three chats have completed and the logs have six entries,
\* some in each
C19_Witness ==
    \E d \in Disp :
        /\ invoked[d] = 2
        /\ aborted[d] = 0
        /\ \A t \in Tasks : ~InProgress(t)
        /\ Len(chats[d]) = 3
        /\ Logged2(d) = 6
        /\ successful[d] # <<>>
        /\ failure[d] # <<>>

(***************************************************************************)
(* SpecLive: as Spec, with every send call returning a value and the event *)
(* loop resuming every coroutine whose await has completed.                *)
(***************************************************************************)
NextLive ==
    \/ \E t \in Tasks, d \in Disp : AwaitedRun(t, d)
    \/ \E t \in Tasks, r \in SendResults : SendReturn(t, r)
    \/ \E t \in Tasks : NextChat(t)
    \/ \E t \in Tasks : Finish(t)

\* a send that is awaited returns, a sleep that is awaited ends
Fairness ==
    \A t \in Tasks :
        /\ WF_vars(\E r \in SendResults : SendReturn(t, r))
        /\ WF_vars(NextChat(t))
        /\ WF_vars(Finish(t))

SpecLive == Init /\ [][NextLive]_vars /\ Fairness

\* C17: a run() in its loop eventually completes; a completed run() has a
\* result for every chat and has left the broadcaster not running and out
\* of the registry, and over no chats it has called send not once.
C17_RunCompletes ==
    /\ \A t \in Tasks : InProgress(t) ~> pc[t] = "done"
    /\ [](\A t \in Tasks :
            pc[t] = "done" =>
                /\ Len(results[t]) = Len(chats[owner[t]])
                /\ ~is_running[owner[t]]
                /\ Count(running, owner[t]) = 0
                /\ chats[owner[t]] = <<>> => calls[t] = <<>>)

\* a run over three chats has completed and the registry is empty
C17_Witness ==
    \E t \in Tasks :
        /\ pc[t] = "done"
        /\ Len(calls[t]) = 3
        /\ Len(results[t]) = 3
        /\ ~is_running[owner[t]]
        /\ running = <<>>

(***************************************************************************)
(* SpecTwo: every broadcaster is constructed, and run() of one broadcaster *)
(* is invoked while run() of another is suspended at an await.             *)
(***************************************************************************)
\* lists of chats of different lengths, one list for each broadcaster
TwoIds == [i \in 1 .. MaxItems |-> ScalarItem(RunIds[i])]
TwoInputs ==
    [d \in Disp |->
        ListChats(SubSeq(TwoIds, 1, IF d <= MaxItems THEN d ELSE MaxItems))]

InitTwo ==
    /\ \E c \in {TwoInputs} :
           /\ chatsArg = setup_chats(c[First], [opt |-> "'y'"]).input
           /\ chatsSeen = c
           /\ hasChats = [d \in Disp |-> setup_chats(c[d], [opt |-> "'y'"]).set]
           /\ chats = [d \in Disp |-> setup_chats(c[d], [opt |-> "'y'"]).chats]
    /\ argsArg = [opt |-> "'y'"]
    /\ botArg = "bot"
    /\ tokenArg = "None"
    /\ currentBot = "None"
    /\ bot = [d \in Disp |-> setup_bot("bot", "None", "None").bot]
    /\ ctor = [d \in Disp |-> "ok"]
    /\ Blank

\* no run() of d is in progress
Alone(d) == \A u \in Tasks : InProgress(u) => owner[u] # d

\* the caller starts d.run() as a task while no other run() of d is in
\* progress
ConcurrentRun(t, d) == Alone(d) /\ RunStart(t, d)

NextTwo ==
    \/ \E t \in Tasks, d \in Disp : ConcurrentRun(t, d)
    \/ \E t \in Tasks, r \in SendResults : SendReturn(t, r)
    \/ \E t \in Tasks : SendRaise(t)
    \/ \E t \in Tasks : NextChat(t)
    \/ \E t \in Tasks : Finish(t)

SpecTwo == InitTwo /\ [][NextTwo]_vars

\* no coroutine of d took the step and run() was not invoked on d
Untouched(d) ==
    /\ invoked'[d] = invoked[d]
    /\ \A t \in Tasks :
           owner[t] = d \/ owner'[t] = d =>
               /\ owner'[t] = owner[t]
               /\ pc'[t] = pc[t]
               /\ pos'[t] = pos[t]
               /\ results'[t] = results[t]

\* the registry without the entries of d
Others(registry, d) == SelectSeq(registry, LAMBDA e : e # d)

\* C15: with run() of several broadcasters in progress at once, (a) a run
\* in progress has its broadcaster running and registered, and the logs are
\* those at its start followed by the outcomes of its own sends only; (b) a
\* step taken for another broadcaster changes nothing of a broadcaster: not
\* _is_running, not the logs, not its entries in the registry; (c) the end
\* of a run removes one entry of its own broadcaster and leaves the entries
\* of the others as they were.
C15_NoInterference ==
    /\ [](\A t \in Tasks :
            InProgress(t) =>
                /\ is_running[owner[t]]
                /\ Count(running, owner[t]) = aborted[owner[t]] + 1
                /\ successful[owner[t]] =
                       base[t].successful \o
                           IdsOf(Chosen(owner[t], results[t], TRUE))
                /\ failure[owner[t]] =
                       base[t].failure \o Chosen(owner[t], results[t], FALSE))
    /\ [][\A d \in Disp :
            Untouched(d) =>
                /\ is_running'[d] = is_running[d]
                /\ successful'[d] = successful[d]
                /\ failure'[d] = failure[d]
                /\ Count(running', d) = Count(running, d)]_vars
    /\ [][\A t \in Tasks :
            pc[t] = "sleep" /\ pc'[t] = "done" =>
                /\ ~is_running'[owner[t]]
                /\ Count(running', owner[t]) = Count(running, owner[t]) - 1
                /\ Others(running', owner[t]) = Others(running, owner[t])]_vars

\* the only run of one broadcaster began and ended while the only run of
\* another broadcaster was in progress, both had results, and the registry
\* holds the one still in progress
C15_Witness ==
    \E t, u \in Tasks :
        /\ u < t
        /\ pc[t] = "done" /\ results[t] # <<>>
        /\ pc[u] = "sleep" /\ results[u] # <<>>
        /\ owner[t] # owner[u]
        /\ invoked[owner[t]] = 1 /\ invoked[owner[u]] = 1
        /\ successful[owner[t]] # <<>> /\ failure[owner[u]] # <<>>
        /\ running = <<owner[u]>>

(***************************************************************************)
(* SpecOverlap: one broadcaster, whose run() is invoked again while an     *)
(* earlier run() of it is suspended at an await; every send returns.       *)
(***************************************************************************)
NextOverlap ==
    \/ \E t \in Tasks, d \in Disp : RunStart(t, d)
    \/ \E t \in Tasks, r \in SendResults : SendReturn(t, r)
    \/ \E t \in Tasks : NextChat(t)
    \/ \E t \in Tasks : Finish(t)
    \/ \E d \in Disp : ReadSuccessful(d)

SpecOverlap == Init /\ [][NextOverlap]_vars

\* C20: a broadcaster with a run() in progress is marked running, and it
\* occurs in the registry once when it is marked running and not at all
\* when it is not.
C20_RunningWhileInProgress ==
    \A d \in Disp :
        /\ (\E t \in Tasks : InProgress(t) /\ owner[t] = d) => is_running[d]
        /\ Count(running, d) = IF is_running[d] THEN 1 ELSE 0

====
